---- MODULE Spec2Model ----
(***************************************************************************)
(* Model of src/main.py: GatewayManager (per-device routing profiles on a  *)
(* gateway host) and the command-line dispatch of the __main__ block.      *)
(*                                                                         *)
(* Durable state (survives a process): the kernel/firewall rules and the   *)
(* device file.  Process state: the in-memory registry, the bootstrap      *)
(* position, and a record of the last call: the commands it passed to     *)
(* _execute, those handed to subprocess.run, whether one of them failed    *)
(* and whether the device file was written.                                *)
(***************************************************************************)
EXTENDS Integers, Sequences, FiniteSets, TLC

VARIABLES pc, dry_run, attempt, vpn_iface, devices, file, kernel, issued, lastCall,
          listing, invoked, saved, failed

vars == <<pc, dry_run, attempt, vpn_iface, devices, file, kernel, issued, lastCall,
          listing, invoked, saved, failed>>

(* ------------------------------ bounds -------------------------------- *)

\* Largest number of identical rules the model lets the kernel hold.
MaxRules == 2

\* Largest number of commands of one call that fail for a reason outside the
\* program (SpecFaults).
MaxFaults == 1

\* Longest interface listing os.listdir returns in SpecBoot.
MaxIfaces == 2

\* Number of polling attempts of prepare_system (range(15)); attempt is the
\* loop variable, it does not outlive the loop.
MaxAttempts == 15

(* --------------------------- configuration ---------------------------- *)

vpn_table == "100"
local_net == "192.168.178.0/24"

(* ------------------------------ inputs -------------------------------- *)

IPs == {"10.0.0.5", "10.0.0.9"}

\* "Sicher" is the third profile name the code knows; "Secure" is a name the
\* code has no branch for.
Profiles == {"Normal", "VPN", "Sicher", "Secure"}

\* "" stands for an omitted or empty name (any falsy value).
Names == {"", "laptop"}

\* Contents of /sys/class/net/ as os.listdir may return them.
IfaceLists == { <<>>, <<"lo", "eth0">>, <<"lo", "tun0", "wg0">> }

\* Interface names of SpecBoot, and every listing of at most MaxIfaces of
\* them.
BootNames == {"eth0", "tun0", "tun1", "wg0", "wg1"}
BootLists == UNION {[1..n -> BootNames] : n \in 0..MaxIfaces}

IfaceNames == {"lo"} \cup BootNames

\* The ip, the profiles and the names used where commands may fail
\* (SpecFaults).
FaultIPs == {"10.0.0.5"}
FaultProfiles == {"Normal", "Sicher"}
FaultNames == {""}

\* Registry files found on disk when the model starts.
InitialFiles == { <<>>,
                  <<[ip |-> "10.0.0.5", name |-> "laptop", profile |-> "Sicher"]>> }

(* --------------------- Python values and dict helpers ------------------ *)

\* found_iface = None; an unset attribute self.vpn_iface is modelled the same
\* way, the code never assigns None to it.
None == ""

Truthy(s) == s # ""

StartsWith(s, p) == Len(s) >= Len(p) /\ SubSeq(s, 1, Len(p)) = p

\* The registry is a Python dict: a sequence of entries in insertion order,
\* one per ip.
Has(devs, ip) == \E i \in 1..Len(devs) : devs[i].ip = ip

Get(devs, ip) == devs[CHOOSE i \in 1..Len(devs) : devs[i].ip = ip]

SetProfile(devs, ip, profile) ==
    [i \in 1..Len(devs) |->
        IF devs[i].ip = ip THEN [devs[i] EXCEPT !.profile = profile] ELSE devs[i]]

(* ------------------------------ kernel -------------------------------- *)

EmptyKernel ==
    [rule |-> [i \in IPs |-> 0], drop |-> [i \in IPs |-> 0],
     nat |-> [n \in IfaceNames |-> 0], ip_forward |-> FALSE]

Dec(n) == IF n > 0 THEN n - 1 ELSE 0

\* What subprocess.run does to the host for each argv the program builds:
\* the new kernel state and the exit code.  A delete removes one matching
\* rule and fails when there is none; an add or insert adds one rule; -C
\* succeeds when the rule exists.
Run(k, cmd) ==
    IF cmd[2] = "ip" THEN
        IF cmd[4] = "del"
        THEN [kernel |-> [k EXCEPT !.rule[cmd[6]] = Dec(@)],
              returncode |-> IF k.rule[cmd[6]] > 0 THEN 0 ELSE 2]
        ELSE [kernel |-> [k EXCEPT !.rule[cmd[6]] = @ + 1], returncode |-> 0]
    ELSE IF cmd[2] = "sysctl" THEN
        [kernel |-> [k EXCEPT !.ip_forward = TRUE], returncode |-> 0]
    ELSE IF cmd[3] = "-t" THEN
        IF cmd[5] = "-C"
        THEN [kernel |-> k, returncode |-> IF k.nat[cmd[8]] > 0 THEN 0 ELSE 1]
        ELSE [kernel |-> [k EXCEPT !.nat[cmd[8]] = @ + 1], returncode |-> 0]
    ELSE IF cmd[3] = "-D"
        THEN [kernel |-> [k EXCEPT !.drop[cmd[6]] = Dec(@)],
              returncode |-> IF k.drop[cmd[6]] > 0 THEN 0 ELSE 1]
        ELSE [kernel |-> [k EXCEPT !.drop[cmd[6]] = @ + 1], returncode |-> 0]

\* What the host does with a command: "ok" is the normal effect (Run),
\* "nonzero" a non-zero exit without effect, "raise" an exception of
\* subprocess.run (binary missing).
Outcomes == {"ok", "nonzero", "raise"}

\* Variant of execute that runs the command in dry-run too.
execute_IgnoresDryRun(k, dry, cmd, outcome) ==
    LET r == Run(k, cmd)
    IN  [kernel |-> r.kernel, returncode |-> r.returncode, ran |-> <<cmd>>,
         failed |-> r.returncode # 0]

\* _execute: in dry-run nothing is invoked and None is returned (returncode
\* -1 stands for the None result); an exception of subprocess.run is caught
\* and None is returned; a non-zero exit is returned as it is.  ran holds
\* the command when subprocess.run was called.
execute(k, dry, cmd, outcome) ==
    IF dry THEN [kernel |-> k, returncode |-> -1, ran |-> <<>>, failed |-> FALSE]
    ELSE IF outcome = "raise"
    THEN [kernel |-> k, returncode |-> -1, ran |-> <<cmd>>, failed |-> TRUE]
    ELSE IF outcome = "nonzero"
    THEN [kernel |-> k, returncode |-> 1, ran |-> <<cmd>>, failed |-> TRUE]
    ELSE LET r == Run(k, cmd)
         IN  [kernel |-> r.kernel, returncode |-> r.returncode, ran |-> <<cmd>>,
              failed |-> r.returncode # 0]

RECURSIVE executeFrom(_, _, _, _, _)
\* Consecutive _execute calls whose results the caller ignores, from the
\* i-th command on; acc = [kernel, ran, failed] so far, outs[i] is the
\* outcome of the i-th command.
executeFrom(acc, dry, cmds, outs, i) ==
    IF i > Len(cmds) THEN acc
    ELSE LET r == execute(acc.kernel, dry, cmds[i], outs[i])
         IN  executeFrom([kernel |-> r.kernel, ran |-> acc.ran \o r.ran,
                          failed |-> acc.failed \/ r.failed], dry, cmds, outs, i + 1)

executeAll(k, dry, cmds, outs) ==
    executeFrom([kernel |-> k, ran |-> <<>>, failed |-> FALSE], dry, cmds, outs, 1)

\* Every command takes its normal effect.
NoFaults == [i \in 1..4 |-> "ok"]

\* At most MaxFaults commands of a call fail for an outside reason.
FaultOutcomes ==
    {o \in [1..4 -> Outcomes] : Cardinality({i \in 1..4 : o[i] # "ok"}) <= MaxFaults}

(* --------------------------- apply_profile ---------------------------- *)

RuleDel(ip) == <<"sudo", "ip", "rule", "del", "from", ip, "table", vpn_table>>
RuleAdd(ip) == <<"sudo", "ip", "rule", "add", "from", ip, "table", vpn_table>>
DropDel(ip) == <<"sudo", "iptables", "-D", "FORWARD", "-s", ip, "-d", local_net, "-j", "DROP">>
DropIns(ip) == <<"sudo", "iptables", "-I", "FORWARD", "-s", ip, "-d", local_net, "-j", "DROP">>

\* Variant of RegistryUpdate that stores the name as given, without the
\* fallback to the ip.
RegistryUpdate_NoNameDefault(devs, ip, profile, name, update_json) ==
    IF ~Has(devs, ip) /\ update_json
    THEN Append(devs, [ip |-> ip, name |-> name, profile |-> profile])
    ELSE IF update_json
    THEN SetProfile(devs, ip, profile)
    ELSE devs

\* Variant of RegistryUpdate that leaves the entry of a known ip as it is.
RegistryUpdate_NoOverwrite(devs, ip, profile, name, update_json) ==
    IF ~Has(devs, ip) /\ update_json
    THEN Append(devs, [ip |-> ip, name |-> IF Truthy(name) THEN name ELSE ip,
                       profile |-> profile])
    ELSE devs

\* Variant of RegistryUpdate that replaces the whole entry of a known ip.
RegistryUpdate_ReplaceEntry(devs, ip, profile, name, update_json) ==
    IF ~Has(devs, ip) /\ update_json
    THEN Append(devs, [ip |-> ip, name |-> IF Truthy(name) THEN name ELSE ip,
                       profile |-> profile])
    ELSE IF update_json
    THEN [i \in 1..Len(devs) |->
            IF devs[i].ip = ip
            THEN [ip |-> ip, name |-> IF Truthy(name) THEN name ELSE ip, profile |-> profile]
            ELSE devs[i]]
    ELSE devs

\* Registry step of apply_profile: a new entry for an unseen ip, a profile
\* overwrite for a known one, nothing when update_json is false.
RegistryUpdate(devs, ip, profile, name, update_json) ==
    IF ~Has(devs, ip) /\ update_json
    THEN Append(devs, [ip |-> ip, name |-> IF Truthy(name) THEN name ELSE ip,
                       profile |-> profile])
    ELSE IF update_json
    THEN SetProfile(devs, ip, profile)
    ELSE devs

\* Variants of TearDownCmds that forget one of the deletes.
TearDownCmds_NoRuleDel(ip) == <<DropDel(ip)>>
TearDownCmds_NoDropDel(ip) == <<RuleDel(ip)>>

\* The two deletes issued for every call.
TearDownCmds(ip) == <<RuleDel(ip), DropDel(ip)>>

\* Variants of InstallCmds: the DROP rule appended instead of inserted; the
\* DROP rule installed for VPN too; the routing rule installed in a final
\* else branch.
InstallCmds_Append(ip, profile) ==
    IF profile = "VPN" THEN <<RuleAdd(ip)>>
    ELSE IF profile = "Sicher"
    THEN <<RuleAdd(ip),
           <<"sudo", "iptables", "-A", "FORWARD", "-s", ip, "-d", local_net, "-j", "DROP">> >>
    ELSE <<>>

InstallCmds_VpnDrops(ip, profile) ==
    IF profile = "VPN" \/ profile = "Sicher" THEN <<RuleAdd(ip), DropIns(ip)>>
    ELSE <<>>

InstallCmds_ElseAdds(ip, profile) ==
    IF profile = "Sicher" THEN <<RuleAdd(ip), DropIns(ip)>>
    ELSE <<RuleAdd(ip)>>

\* Variant of InstallCmds that treats every name but Normal as a routed
\* profile.
InstallCmds_NotNormalAdds(ip, profile) ==
    IF profile = "Sicher" THEN <<RuleAdd(ip), DropIns(ip)>>
    ELSE IF profile # "Normal" THEN <<RuleAdd(ip)>>
    ELSE <<>>

\* The profile-dependent commands.
InstallCmds(ip, profile) ==
    IF profile = "VPN" THEN <<RuleAdd(ip)>>
    ELSE IF profile = "Sicher" THEN <<RuleAdd(ip), DropIns(ip)>>
    ELSE <<>>

\* _save_device_config: the file is rewritten from the in-memory registry.
save_device_config(devs) == devs

\* Variant of apply_body that installs before it tears down.
apply_body_InstallFirst(st, dry, ip, profile, name, update_json, outs) ==
    LET devs == RegistryUpdate(st.devices, ip, profile, name, update_json)
        cmds == InstallCmds(ip, profile) \o TearDownCmds(ip)
        x    == executeAll(st.kernel, dry, cmds, outs)
    IN  [devices |-> devs,
         kernel  |-> x.kernel,
         file    |-> IF update_json THEN save_device_config(devs) ELSE st.file,
         issued  |-> cmds, invoked |-> x.ran, failed |-> x.failed,
         saved   |-> update_json,
         raised  |-> IF Has(devs, ip) THEN "none" ELSE "KeyError"]

\* Variant of apply_body that saves the registry on every call.
apply_body_AlwaysSaves(st, dry, ip, profile, name, update_json, outs) ==
    LET devs == RegistryUpdate(st.devices, ip, profile, name, update_json)
        cmds == TearDownCmds(ip) \o InstallCmds(ip, profile)
        x    == executeAll(st.kernel, dry, cmds, outs)
    IN  [devices |-> devs,
         kernel  |-> x.kernel,
         file    |-> save_device_config(devs),
         issued  |-> cmds, invoked |-> x.ran, failed |-> x.failed,
         saved   |-> TRUE,
         raised  |-> IF Has(devs, ip) THEN "none" ELSE "KeyError"]

\* The body of apply_profile on the state st = [devices, kernel, file]:
\* the state after it, the commands passed to _execute, those handed to
\* subprocess.run, whether one failed, whether the file was written, and the
\* exception that leaves the method ("none" when it returns).
apply_body(st, dry, ip, profile, name, update_json, outs) ==
    LET devs == RegistryUpdate(st.devices, ip, profile, name, update_json)
        cmds == TearDownCmds(ip) \o InstallCmds(ip, profile)
        x    == executeAll(st.kernel, dry, cmds, outs)
    IN  [devices |-> devs,
         kernel  |-> x.kernel,
         file    |-> IF update_json THEN save_device_config(devs) ELSE st.file,
         issued  |-> cmds, invoked |-> x.ran, failed |-> x.failed,
         saved   |-> update_json,
         raised  |-> IF Has(devs, ip) THEN "none" ELSE "KeyError"]

\* A call of apply_profile with the positional arguments args: the four
\* parameters ip, profile, name, update_json have no defaults, so a call with
\* fewer arguments raises TypeError before the body runs.
apply_profile(st, dry, args, outs) ==
    IF Len(args) # 4
    THEN [devices |-> st.devices, kernel |-> st.kernel, file |-> st.file,
          issued |-> <<>>, invoked |-> <<>>, failed |-> FALSE, saved |-> FALSE,
          raised |-> "TypeError"]
    ELSE apply_body(st, dry, args[1], args[2], args[3], args[4], outs)

\* A call that has done nothing yet.
Nothing(st) ==
    [devices |-> st.devices, kernel |-> st.kernel, file |-> st.file,
     issued |-> <<>>, invoked |-> <<>>, failed |-> FALSE, saved |-> FALSE,
     raised |-> "none"]

RECURSIVE init_loop(_, _, _, _, _)
\* The loop of init_all_devices over the entries from position i on; acc
\* carries the state and what the calls so far have done.
init_loop(acc, dry, items, i, outs) ==
    IF i > Len(items) \/ acc.raised # "none" THEN acc
    ELSE LET r == apply_profile([devices |-> acc.devices, kernel |-> acc.kernel,
                                 file |-> acc.file], dry,
                                <<items[i].ip, items[i].profile, items[i].name, FALSE>>,
                                outs)
         IN  init_loop([r EXCEPT !.issued = acc.issued \o r.issued,
                                 !.invoked = acc.invoked \o r.invoked,
                                 !.failed = acc.failed \/ r.failed,
                                 !.saved = acc.saved \/ r.saved],
                       dry, items, i + 1, outs)

init_all_devices(st, dry, outs) == init_loop(Nothing(st), dry, st.devices, 1, outs)

State == [devices |-> devices, kernel |-> kernel, file |-> file]

Within(k) ==
    /\ \A i \in IPs : k.rule[i] <= MaxRules /\ k.drop[i] <= MaxRules
    /\ \A n \in IfaceNames : k.nat[n] <= MaxRules

Call(op, argv, ip, profile, name, update_json, raised) ==
    [op |-> op, argv |-> argv, ip |-> ip, profile |-> profile, name |-> name,
     update_json |-> update_json, raised |-> raised]

(* ----------------------------- bootstrap ------------------------------ *)

IsWg(i) == StartsWith(i, "wg")
IsTun(i) == StartsWith(i, "tun")

\* Variant of get_vpn_interface that looks for tun interfaces first.
get_vpn_interface_TunFirst(listdir_ok, interfaces) ==
    IF ~listdir_ok THEN None
    ELSE LET tun == SelectSeq(interfaces, IsTun)
             vpn_ifs == IF tun = <<>> THEN SelectSeq(interfaces, IsWg) ELSE tun
         IN  IF vpn_ifs # <<>> THEN vpn_ifs[1] ELSE None

\* _get_vpn_interface on the listing os.listdir returned; listdir_ok is
\* FALSE when listing raised.
get_vpn_interface(listdir_ok, interfaces) ==
    IF ~listdir_ok THEN None
    ELSE LET wg == SelectSeq(interfaces, IsWg)
             vpn_ifs == IF wg = <<>> THEN SelectSeq(interfaces, IsTun) ELSE wg
         IN  IF vpn_ifs # <<>> THEN vpn_ifs[1] ELSE None

\* What os.listdir('/sys/class/net/') may do: return one of the listings of
\* S, or raise.
Listings(S) == {[ok |-> TRUE, names |-> l] : l \in S} \cup {[ok |-> FALSE, names |-> <<>>]}

NoListing == [ok |-> TRUE, names |-> <<>>]

SysctlCmd == <<"sudo", "sysctl", "-w", "net.ipv4.ip_forward=1">>
NatCheck(iface) == <<"sudo", "iptables", "-t", "nat", "-C", "POSTROUTING", "-o", iface, "-j", "MASQUERADE">>
NatAdd(iface) == <<"sudo", "iptables", "-t", "nat", "-A", "POSTROUTING", "-o", iface, "-j", "MASQUERADE">>

\* _ensure_ip_forwarding: the kernel after it, the commands issued and run,
\* and whether the command succeeded (result and returncode == 0).
ensure_ip_forwarding(k, dry, outcome) ==
    IF dry THEN [kernel |-> k, issued |-> <<>>, invoked |-> <<>>, failed |-> FALSE]
    ELSE LET result == execute(k, dry, SysctlCmd, outcome)
         IN  [kernel |-> result.kernel, issued |-> <<SysctlCmd>>,
              invoked |-> result.ran, failed |-> result.failed]

\* Variant of setup_nat that adds the rule without looking at the check.
setup_nat_AlwaysAdds(k, dry, iface, out_check, out_add) ==
    IF dry THEN [kernel |-> k, issued |-> <<>>, invoked |-> <<>>, failed |-> FALSE]
    ELSE LET check_result == execute(k, dry, NatCheck(iface), out_check)
             add_result == execute(check_result.kernel, dry, NatAdd(iface), out_add)
         IN  [kernel |-> add_result.kernel,
              issued |-> <<NatCheck(iface), NatAdd(iface)>>,
              invoked |-> check_result.ran \o add_result.ran,
              failed |-> check_result.failed \/ add_result.failed]

\* _setup_nat: check, then add only when the check returned a result with a
\* non-zero exit code.
setup_nat(k, dry, iface, out_check, out_add) ==
    IF dry THEN [kernel |-> k, issued |-> <<>>, invoked |-> <<>>, failed |-> FALSE]
    ELSE LET check_result == execute(k, dry, NatCheck(iface), out_check)
         IN  IF check_result.returncode # -1 /\ check_result.returncode # 0
             THEN LET add_result == execute(check_result.kernel, dry, NatAdd(iface), out_add)
                  IN  [kernel |-> add_result.kernel,
                       issued |-> <<NatCheck(iface), NatAdd(iface)>>,
                       invoked |-> check_result.ran \o add_result.ran,
                       failed |-> check_result.failed \/ add_result.failed]
             ELSE [kernel |-> check_result.kernel, issued |-> <<NatCheck(iface)>>,
                   invoked |-> check_result.ran, failed |-> check_result.failed]

\* Variant of prepare_tail that returns when forwarding could not be
\* enabled.
prepare_tail_StopsOnFailure(k, dry, iface, outs) ==
    LET fwd == ensure_ip_forwarding(k, dry, outs[1])
        nat == setup_nat(fwd.kernel, dry, iface, outs[2], outs[3])
    IN  IF fwd.failed THEN fwd
        ELSE [kernel |-> nat.kernel, issued |-> fwd.issued \o nat.issued,
              invoked |-> fwd.invoked \o nat.invoked, failed |-> fwd.failed \/ nat.failed]

\* The end of prepare_system once an interface is found: forwarding, then
\* NAT.  outs[1..3] are the outcomes of sysctl, the check and the add.
prepare_tail(k, dry, iface, outs) ==
    LET fwd == ensure_ip_forwarding(k, dry, outs[1])
        nat == setup_nat(fwd.kernel, dry, iface, outs[2], outs[3])
    IN  [kernel |-> nat.kernel, issued |-> fwd.issued \o nat.issued,
         invoked |-> fwd.invoked \o nat.invoked, failed |-> fwd.failed \/ nat.failed]

\* _load_json of the device file.
load_json(f) == f

(* ------------------------------ actions ------------------------------- *)

\* A process starts: the constructor has loaded the configuration and the
\* registry; prepare_system follows unless dry_run.
Init ==
    /\ dry_run \in BOOLEAN
    /\ file \in InitialFiles
    /\ devices = load_json(file)
    /\ kernel = EmptyKernel
    /\ pc = IF dry_run THEN "constructed" ELSE "prepare_system"
    /\ attempt = 0
    /\ vpn_iface = None
    /\ issued = <<>>
    /\ lastCall = Call("construct", <<>>, "", "", "", FALSE, "none")
    /\ listing = NoListing
    /\ invoked = <<>>
    /\ saved = FALSE
    /\ failed = FALSE

\* A polling attempt that finds an interface: the loop breaks and the
\* forwarding and NAT setup run.  L is what os.listdir may return, O the
\* outcomes the commands may have.
PollFoundWith(L, O) ==
    /\ pc = "prepare_system" /\ attempt < MaxAttempts
    /\ \E l \in L, outs \in O :
         LET found_iface == get_vpn_interface(l.ok, l.names)
             r == prepare_tail(kernel, dry_run, found_iface, outs)
         IN  /\ listing' = l
             /\ Truthy(found_iface)
             /\ Within(r.kernel)
             /\ vpn_iface' = found_iface
             /\ kernel' = r.kernel
             /\ issued' = r.issued /\ invoked' = r.invoked /\ failed' = r.failed
    /\ attempt' = 0
    /\ pc' = "constructed"
    /\ lastCall' = Call("prepare_system", <<>>, "", "", "", FALSE, "none")
    /\ UNCHANGED <<dry_run, devices, file, saved>>

\* A polling attempt that finds nothing, with attempts left: sleep.
PollWaitWith(L) ==
    /\ pc = "prepare_system" /\ attempt + 1 < MaxAttempts
    /\ \E l \in L :
         /\ listing' = l
         /\ ~Truthy(get_vpn_interface(l.ok, l.names))
    /\ attempt' = attempt + 1
    /\ lastCall' = Call("prepare_system", <<>>, "", "", "", FALSE, "none")
    /\ UNCHANGED <<pc, dry_run, vpn_iface, devices, file, kernel, issued, invoked,
                   saved, failed>>

\* The last polling attempt finds nothing: the loop ends and line 50 reads
\* self.vpn_iface, which was never assigned; the AttributeError leaves the
\* constructor.
PollTimeoutWith(L) ==
    /\ pc = "prepare_system" /\ attempt + 1 = MaxAttempts
    /\ \E l \in L :
         /\ listing' = l
         /\ ~Truthy(get_vpn_interface(l.ok, l.names))
    /\ attempt' = 0
    /\ pc' = "crashed"
    /\ lastCall' = Call("prepare_system", <<>>, "", "", "", FALSE, "AttributeError")
    /\ UNCHANGED <<dry_run, vpn_iface, devices, file, kernel, issued, invoked,
                   saved, failed>>

\* What os.listdir may do in Spec and SpecFaults.
IfaceListings == Listings(IfaceLists)

PollFound == PollFoundWith(IfaceListings, {NoFaults})
PollWait == PollWaitWith(IfaceListings)
PollTimeout == PollTimeoutWith(IfaceListings)

\* The effect of a finished call r on the manager and the host.
Effect(r) ==
    /\ Within(r.kernel)
    /\ devices' = r.devices /\ kernel' = r.kernel /\ file' = r.file
    /\ issued' = r.issued /\ invoked' = r.invoked /\ failed' = r.failed
    /\ saved' = r.saved

\* manager.apply_profile(ip, profile, name, update_json) on a constructed
\* manager, for the ips I, the profiles P, the names N and the command
\* outcomes O.
ApplyWith(I, P, N, O) ==
    /\ pc = "constructed"
    /\ \E ip \in I, profile \in P, name \in N, update_json \in BOOLEAN, outs \in O :
         LET r == apply_profile(State, dry_run, <<ip, profile, name, update_json>>, outs)
         IN  /\ Effect(r)
             /\ lastCall' = Call("apply", <<>>, ip, profile, name, update_json, r.raised)
    /\ UNCHANGED <<pc, dry_run, attempt, vpn_iface, listing>>

ApplyProfile == ApplyWith(IPs, Profiles, Names, {NoFaults})

\* manager.init_all_devices() on a constructed manager.
InitAllDevices ==
    /\ pc = "constructed"
    /\ LET r == init_all_devices(State, dry_run, NoFaults)
       IN  /\ Effect(r)
           /\ lastCall' = Call("init_all_devices", <<>>, "", "", "", FALSE, r.raised)
    /\ UNCHANGED <<pc, dry_run, attempt, vpn_iface, listing>>

(* ------------------------- the __main__ block -------------------------- *)

\* sys.argv as the shell hands it over (argv[1] is the script).
Argvs ==
    { <<"main.py">>, <<"main.py", "--all">>, <<"main.py", "--help">> }
    \cup { <<"main.py", "10.0.0.9", profile>> : profile \in {"VPN", "Sicher"} }
    \cup { <<"main.py", "10.0.0.9", profile, "laptop">> : profile \in {"VPN", "Sicher"} }

\* What the user types at the interactive prompts (after strip()).
PromptIPs == {"", "10.0.0.9"}
PromptProfiles == {"VPN"}

\* `script --all`: the restore, then the process ends.
MainAll ==
    /\ pc = "constructed"
    /\ \E argv \in Argvs :
         /\ Len(argv) = 2 /\ argv[2] = "--all"
         /\ LET r == init_all_devices(State, dry_run, NoFaults)
            IN  /\ Effect(r)
                /\ lastCall' = Call("main", argv, "", "", "", FALSE, r.raised)
                /\ pc' = IF r.raised = "none" THEN "exited" ELSE "crashed"
    /\ UNCHANGED <<dry_run, attempt, vpn_iface, listing>>

\* No arguments: the interactive prompt.  An empty ip raises ValueError;
\* otherwise apply_profile is called with three arguments.  Every exception
\* is caught by `except Exception` and logged.
MainInteractive ==
    /\ pc = "constructed"
    /\ \E argv \in Argvs, in_ip \in PromptIPs, in_profile \in PromptProfiles, in_name \in Names :
         /\ Len(argv) = 1
         /\ LET name == IF Truthy(in_name) THEN in_name ELSE in_ip
                r == IF ~Truthy(in_ip)
                     THEN [Nothing(State) EXCEPT !.raised = "ValueError"]
                     ELSE apply_profile(State, dry_run, <<in_ip, in_profile, name>>, NoFaults)
            IN  /\ Effect(r)
                /\ lastCall' = Call("main", argv, in_ip, in_profile, name, FALSE, r.raised)
    /\ pc' = "exited"
    /\ UNCHANGED <<dry_run, attempt, vpn_iface, listing>>

\* Exactly three arguments: apply_profile is called with three arguments,
\* outside any try block.
MainApplyArgs ==
    /\ pc = "constructed"
    /\ \E argv \in Argvs :
         /\ Len(argv) = 4
         /\ LET r == apply_profile(State, dry_run, <<argv[2], argv[3], argv[4]>>, NoFaults)
            IN  /\ Effect(r)
                /\ lastCall' = Call("main", argv, argv[2], argv[3], argv[4], FALSE, r.raised)
                /\ pc' = IF r.raised = "none" THEN "exited" ELSE "crashed"
    /\ UNCHANGED <<dry_run, attempt, vpn_iface, listing>>

\* Any other argument shape, `<ip> <profile>` included: the usage text.
MainUsage ==
    /\ pc = "constructed"
    /\ \E argv \in Argvs :
         /\ ~(Len(argv) = 2 /\ argv[2] = "--all") /\ Len(argv) # 1 /\ Len(argv) # 4
         /\ lastCall' = Call("main", argv, "", "", "", FALSE, "none")
    /\ issued' = <<>> /\ invoked' = <<>> /\ saved' = FALSE /\ failed' = FALSE
    /\ pc' = "exited"
    /\ UNCHANGED <<dry_run, attempt, vpn_iface, devices, file, kernel, listing>>

\* The next process: the configuration is read again, the registry is
\* loaded from the file, the kernel keeps its rules.
Restart ==
    /\ pc \in {"exited", "crashed"}
    /\ devices' = load_json(file)
    /\ pc' = IF dry_run THEN "constructed" ELSE "prepare_system"
    /\ attempt' = 0
    /\ vpn_iface' = None
    /\ issued' = <<>> /\ invoked' = <<>> /\ saved' = FALSE /\ failed' = FALSE
    /\ listing' = NoListing
    /\ lastCall' = Call("construct", <<>>, "", "", "", FALSE, "none")
    /\ UNCHANGED <<dry_run, file, kernel>>

Next ==
    \/ PollFound \/ PollWait \/ PollTimeout
    \/ ApplyProfile \/ InitAllDevices
    \/ MainAll \/ MainInteractive \/ MainApplyArgs \/ MainUsage
    \/ Restart

Spec == Init /\ [][Next]_vars

(* The bootstrap alone, over every listing of BootLists, with the fairness *)
(* of a loop that keeps running.                                           *)

\* What os.listdir may do in SpecBoot.
BootListings == Listings(BootLists)

PollFoundBoot == PollFoundWith(BootListings, {NoFaults})
PollWaitBoot == PollWaitWith(BootListings)
PollTimeoutBoot == PollTimeoutWith(BootListings)

PollBoot == PollWaitBoot \/ PollTimeoutBoot \/ PollFoundBoot

NextBoot ==
    \/ PollFoundBoot \/ PollWaitBoot \/ PollTimeoutBoot
    \/ MainUsage
    \/ Restart

SpecBoot == Init /\ [][NextBoot]_vars /\ WF_vars(PollBoot)

(* The host may fail commands.                                             *)

PollFoundFaults == PollFoundWith(IfaceListings, FaultOutcomes)
ApplyProfileFaults == ApplyWith(FaultIPs, FaultProfiles, FaultNames, FaultOutcomes)

NextFaults ==
    \/ PollFoundFaults \/ PollWait \/ PollTimeout
    \/ ApplyProfileFaults
    \/ MainUsage
    \/ Restart

SpecFaults == Init /\ [][NextFaults]_vars

(* ------------------------------ claims -------------------------------- *)

\* The argv shapes of section 6 of the specification, spelled out.
ExpRuleDel(ip) == <<"sudo", "ip", "rule", "del", "from", ip, "table", vpn_table>>
ExpRuleAdd(ip) == <<"sudo", "ip", "rule", "add", "from", ip, "table", vpn_table>>
ExpDropDel(ip) == <<"sudo", "iptables", "-D", "FORWARD", "-s", ip, "-d", local_net, "-j", "DROP">>
ExpDropIns(ip) == <<"sudo", "iptables", "-I", "FORWARD", "-s", ip, "-d", local_net, "-j", "DROP">>

IsInstall(cmd) == cmd[4] = "add" \/ cmd[3] = "-I" \/ cmd[3] = "-A"

ApplyCalled == lastCall.op = "apply"

\* C1 as stated: apply(ip, "Secure", ...) passes to _execute exactly the
\* two deletes, then the routing-rule add, then the FORWARD DROP insert.
C1_SecureLiteral ==
    (ApplyCalled /\ lastCall.profile = "Secure") =>
        issued = <<ExpRuleDel(lastCall.ip), ExpDropDel(lastCall.ip),
                   ExpRuleAdd(lastCall.ip), ExpDropIns(lastCall.ip)>>

\* C1 amended: that sequence is issued for the profile name "Sicher", the
\* name the code gives the Secure profile.
C1_SicherSequence ==
    (ApplyCalled /\ lastCall.profile = "Sicher") =>
        issued = <<ExpRuleDel(lastCall.ip), ExpDropDel(lastCall.ip),
                   ExpRuleAdd(lastCall.ip), ExpDropIns(lastCall.ip)>>

C1_Witness ==
    ApplyCalled /\ lastCall.profile = "Sicher" /\ lastCall.update_json /\ Len(issued) = 4

\* C2: apply(ip, "VPN", ...) issues exactly rule delete, DROP delete, rule
\* add, in this order, and no DROP insert.
C2_VpnSequence ==
    (ApplyCalled /\ lastCall.profile = "VPN") =>
        /\ issued = <<ExpRuleDel(lastCall.ip), ExpDropDel(lastCall.ip),
                      ExpRuleAdd(lastCall.ip)>>
        /\ \A i \in 1..Len(issued) : issued[i] # ExpDropIns(lastCall.ip)

C2_Witness ==
    ApplyCalled /\ lastCall.profile = "VPN" /\ Len(issued) = 3 /\ lastCall.ip = "10.0.0.9"

\* C3: apply(ip, "Normal", ...) issues the two deletes and nothing else,
\* whatever profile the device had.
C3_NormalOnlyDeletes ==
    (ApplyCalled /\ lastCall.profile = "Normal") =>
        issued = <<ExpRuleDel(lastCall.ip), ExpDropDel(lastCall.ip)>>

\* A read-only Normal on a device the registry records as Sicher.
C3_Witness ==
    /\ ApplyCalled /\ lastCall.profile = "Normal" /\ ~lastCall.update_json
    /\ Has(devices, lastCall.ip) /\ Get(devices, lastCall.ip).profile = "Sicher"
    /\ Len(issued) = 2

\* C4: in every apply call, whatever the profile and update_json, the two
\* deletes are the first two commands and every add or insert comes after.
C4_TearDownFirst ==
    ApplyCalled =>
        /\ Len(issued) >= 2
        /\ issued[1] = ExpRuleDel(lastCall.ip)
        /\ issued[2] = ExpDropDel(lastCall.ip)
        /\ \A i \in 1..Len(issued) : IsInstall(issued[i]) => i > 2

C4_Witness ==
    /\ ApplyCalled /\ lastCall.profile = "Sicher" /\ ~lastCall.update_json
    /\ IsInstall(issued[3]) /\ IsInstall(issued[4])

\* The kernel after apply_profile(ip, profile, name, update_json) is called
\* n times in succession from the current state.
RECURSIVE KernelAfter(_, _, _, _, _, _)
KernelAfter(st, n, ip, profile, name, update_json) ==
    IF n = 0 THEN st.kernel
    ELSE LET r == apply_profile(st, dry_run, <<ip, profile, name, update_json>>, NoFaults)
         IN  KernelAfter([devices |-> r.devices, kernel |-> r.kernel, file |-> r.file],
                         n - 1, ip, profile, name, update_json)

\* C5: from every state a constructed manager reaches, applying the same
\* (ip, profile) twice in succession leaves the same installed rules as
\* applying it once.
C5_Idempotent ==
    pc = "constructed" =>
        \A ip \in IPs, profile \in Profiles, name \in Names, update_json \in BOOLEAN :
            KernelAfter(State, 2, ip, profile, name, update_json)
                = KernelAfter(State, 1, ip, profile, name, update_json)

\* Sicher has been applied for real: the second apply starts from one
\* routing rule and one DROP rule.
C5_Witness ==
    /\ pc = "constructed" /\ ~dry_run
    /\ ApplyCalled /\ lastCall.profile = "Sicher"
    /\ kernel.rule[lastCall.ip] = 1 /\ kernel.drop[lastCall.ip] = 1

RuleCountOf(profile) == IF profile = "VPN" \/ profile = "Sicher" THEN 1 ELSE 0
DropCountOf(profile) == IF profile = "Sicher" THEN 1 ELSE 0

\* init_all_devices has run, called directly or through `--all`.
RestoreCalled ==
    \/ lastCall.op = "init_all_devices"
    \/ lastCall.op = "main" /\ Len(lastCall.argv) = 2 /\ lastCall.argv[2] = "--all"

\* C6: the kernel never holds more than one routing rule or more than one
\* FORWARD DROP rule per ip; after an apply that ran its commands the rules
\* of that ip are exactly those of the applied profile, and after a restore
\* the rules of every registered ip are those of its stored profile.
C6_NoAccumulation ==
    /\ \A ip \in IPs : kernel.rule[ip] <= 1 /\ kernel.drop[ip] <= 1
    /\ (ApplyCalled /\ ~dry_run) =>
           /\ kernel.rule[lastCall.ip] = RuleCountOf(lastCall.profile)
           /\ kernel.drop[lastCall.ip] = DropCountOf(lastCall.profile)
    /\ (RestoreCalled /\ ~dry_run) =>
           \A i \in 1..Len(devices) :
               /\ kernel.rule[devices[i].ip] = RuleCountOf(devices[i].profile)
               /\ kernel.drop[devices[i].ip] = DropCountOf(devices[i].profile)

\* VPN applied to an ip while the other ip still holds its Sicher rules.
C6_Witness ==
    /\ ~dry_run /\ ApplyCalled /\ lastCall.profile = "VPN"
    /\ kernel.rule[lastCall.ip] = 1 /\ kernel.drop[lastCall.ip] = 0
    /\ \E other \in IPs \ {lastCall.ip} : kernel.rule[other] = 1 /\ kernel.drop[other] = 1

\* C7 as stated: apply with update_json false on an ip the registry does
\* not hold issues no command and returns normally.
C7_UnknownReadOnlyNoOp ==
    (ApplyCalled /\ ~lastCall.update_json /\ ~Has(devices, lastCall.ip)) =>
        /\ issued = <<>>
        /\ lastCall.raised = "none"

\* prepare_system has ended without an interface.
TimedOut == lastCall.op = "prepare_system" /\ pc # "prepare_system" /\ vpn_iface = None

\* C8 as stated: after 15 attempts without an interface prepare_system
\* returns normally, no forwarding or NAT command was issued, and the
\* manager is constructed and usable.
C8_TimeoutAborts ==
    TimedOut => (lastCall.raised = "none" /\ pc = "constructed" /\ issued = <<>>)

\* The command line `<ip> <profile> [<name>]`, or the prompt with an ip.
CliApply ==
    /\ lastCall.op = "main"
    /\ \/ Len(lastCall.argv) \in {3, 4}
       \/ Len(lastCall.argv) = 1 /\ Truthy(lastCall.ip)

\* C9 as stated: the command line forms and the interactive path end in one
\* completed apply with update_json true: the registry holds the ip with the
\* profile, the file is saved and the tear-down commands were issued.
C9_CliApplies ==
    CliApply =>
        LET ip == IF Len(lastCall.argv) = 1 THEN lastCall.ip ELSE lastCall.argv[2]
            profile == IF Len(lastCall.argv) = 1 THEN lastCall.profile ELSE lastCall.argv[3]
        IN  /\ lastCall.raised = "none"
            /\ Has(devices, ip) /\ Get(devices, ip).profile = profile
            /\ file = devices
            /\ Len(issued) >= 2
            /\ issued[1] = ExpRuleDel(ip) /\ issued[2] = ExpDropDel(ip)

\* C10: an apply with update_json true on an ip the registry does not hold
\* appends exactly one entry: the given name, or the ip when the name is
\* empty, and the target profile; the other entries stay as they are.
C10_NewDevice ==
    [][ (lastCall'.op = "apply" /\ lastCall'.update_json /\ ~Has(devices, lastCall'.ip)) =>
            devices' = Append(devices,
                              [ip |-> lastCall'.ip,
                               name |-> IF lastCall'.name = "" THEN lastCall'.ip
                                        ELSE lastCall'.name,
                               profile |-> lastCall'.profile]) ]_vars

\* A device created without a name next to an older entry.
C10_Witness ==
    /\ ApplyCalled /\ lastCall.update_json /\ lastCall.name = ""
    /\ Len(devices) = 2
    /\ devices[2] = [ip |-> lastCall.ip, name |-> lastCall.ip, profile |-> lastCall.profile]

\* The commands of one apply for a stored profile, spelled out.
ExpCmds(ip, profile) ==
    IF profile = "VPN" THEN <<ExpRuleDel(ip), ExpDropDel(ip), ExpRuleAdd(ip)>>
    ELSE IF profile = "Sicher"
    THEN <<ExpRuleDel(ip), ExpDropDel(ip), ExpRuleAdd(ip), ExpDropIns(ip)>>
    ELSE <<ExpRuleDel(ip), ExpDropDel(ip)>>

RECURSIVE ExpRestore(_)
ExpRestore(devs) ==
    IF devs = <<>> THEN <<>>
    ELSE ExpCmds(Head(devs).ip, Head(devs).profile) \o ExpRestore(Tail(devs))

\* C11: init_all_devices issues, device by device in registry order, the
\* command sequence of each stored profile, and leaves the registry and the
\* device file as they were, without writing the file.
C11_RestoreFrame ==
    [][ RestoreCalled' =>
            /\ issued' = ExpRestore(devices)
            /\ devices' = devices
            /\ file' = file
            /\ ~saved'
            /\ lastCall'.raised = "none" ]_vars

\* A restore over two devices with different profiles.
C11_Witness ==
    /\ RestoreCalled /\ ~dry_run /\ Len(devices) = 2
    /\ devices[1].profile = "Sicher" /\ devices[2].profile = "VPN"
    /\ Len(issued) = 7 /\ invoked = issued

\* C12: in dry-run no command reaches subprocess.run, prepare_system is not
\* run and the kernel keeps the state it started with; the device file may
\* be written.
C12_DryRunContained ==
    dry_run =>
        /\ invoked = <<>>
        /\ kernel = EmptyKernel
        /\ pc # "prepare_system" /\ vpn_iface = None
        /\ lastCall.op # "prepare_system"

\* A persisted Sicher in dry-run: four commands logged, none run, the file
\* written.
C12_Witness ==
    /\ dry_run /\ ApplyCalled /\ lastCall.profile = "Sicher" /\ lastCall.update_json
    /\ Len(issued) = 4 /\ invoked = <<>> /\ saved /\ Has(file, lastCall.ip)

\* C13 as stated: a profile outside {Normal, VPN, Secure} on a registered ip
\* issues the two deletes, no add or insert, and returns normally.
C13_OutsideSpecEnum ==
    (ApplyCalled /\ lastCall.profile \notin {"Normal", "VPN", "Secure"}
       /\ Has(devices, lastCall.ip)) =>
        /\ issued = <<ExpRuleDel(lastCall.ip), ExpDropDel(lastCall.ip)>>
        /\ lastCall.raised = "none"

\* C13 amended: the names the code recognises are Normal, VPN and Sicher;
\* any other name on a registered ip issues the two deletes only and
\* returns normally.
C13_Unrecognized ==
    (ApplyCalled /\ lastCall.profile \notin {"Normal", "VPN", "Sicher"}
       /\ Has(devices, lastCall.ip)) =>
        /\ issued = <<ExpRuleDel(lastCall.ip), ExpDropDel(lastCall.ip)>>
        /\ lastCall.raised = "none"

\* The unrecognised name applied read-only to a registered device.
C13_Witness ==
    /\ ApplyCalled /\ lastCall.profile = "Secure" /\ ~lastCall.update_json
    /\ Has(devices, lastCall.ip) /\ Len(issued) = 2 /\ lastCall.raised = "none"

\* C14 as stated: when a command of an apply exits non-zero or raises, the
\* whole command sequence is still issued, the registry is still saved when
\* update_json is true, and apply returns without raising.
C14_FailuresNotFatal ==
    (ApplyCalled /\ failed) =>
        /\ issued = ExpCmds(lastCall.ip, lastCall.profile)
        /\ invoked = issued
        /\ lastCall.update_json => (saved /\ file = devices)
        /\ lastCall.raised = "none"

\* The smallest position of listing.names whose name starts with prefix, 0
\* when there is none.
FirstWith(prefix) ==
    LET idx == {i \in 1..Len(listing.names) : StartsWith(listing.names[i], prefix)}
    IN  IF idx = {} THEN 0 ELSE CHOOSE i \in idx : \A j \in idx : i <= j

\* C15: for every listing, the interface a poll returns is the first wg
\* name when there is one, otherwise the first tun name, otherwise none.
C15_LocatorSelection ==
    (lastCall.op = "prepare_system" /\ listing.ok) =>
        vpn_iface = IF FirstWith("wg") # 0 THEN listing.names[FirstWith("wg")]
                    ELSE IF FirstWith("tun") # 0 THEN listing.names[FirstWith("tun")]
                    ELSE None

\* A tun interface listed before a wg interface: the wg one is returned.
C15_Witness ==
    /\ lastCall.op = "prepare_system" /\ listing.ok
    /\ listing.names = <<"tun0", "wg1">> /\ vpn_iface = "wg1"

\* prepare_system has found an interface and returned.
BootDone == lastCall.op = "prepare_system" /\ pc = "constructed"

ExpSysctl == <<"sudo", "sysctl", "-w", "net.ipv4.ip_forward=1">>
ExpNatCheck(iface) == <<"sudo", "iptables", "-t", "nat", "-C", "POSTROUTING", "-o", iface, "-j", "MASQUERADE">>
ExpNatAdd(iface) == <<"sudo", "iptables", "-t", "nat", "-A", "POSTROUTING", "-o", iface, "-j", "MASQUERADE">>

\* C16: the bootstrap issues the masquerade check for the located interface
\* and, after it, at most one add, exactly when no masquerade rule for the
\* interface existed; no interface ever has more than one masquerade rule.
C16_NatCheckThenAct ==
    /\ [](\A n \in IfaceNames : kernel.nat[n] <= 1)
    /\ [][ BootDone' =>
             /\ \/ issued' = <<ExpSysctl, ExpNatCheck(vpn_iface')>>
                \/ issued' = <<ExpSysctl, ExpNatCheck(vpn_iface'), ExpNatAdd(vpn_iface')>>
             /\ Len(issued') = 3 <=> kernel.nat[vpn_iface'] = 0 ]_vars

\* A later process start: the check finds the rule, no add is issued.
C16_Witness ==
    BootDone /\ issued = <<ExpSysctl, ExpNatCheck(vpn_iface)>> /\ kernel.nat[vpn_iface] = 1

\* C17: once an interface is located the bootstrap issues the forwarding
\* command and then the NAT check, whatever the forwarding command did, and
\* prepare_system returns with the manager constructed.
C17_ForwardingThenNat ==
    /\ Truthy(vpn_iface) => pc # "prepare_system"
    /\ BootDone =>
         /\ Len(issued) >= 2
         /\ issued[1] = ExpSysctl
         /\ issued[2] = ExpNatCheck(vpn_iface)

\* The forwarding command failed and the NAT check was issued all the same.
C17_Witness ==
    BootDone /\ ~kernel.ip_forward /\ Len(issued) >= 2 /\ issued[2] = ExpNatCheck(vpn_iface)

\* The polling part of C18, which the code keeps: while polling at most 15
\* queries are made; a found interface ends the polling and is the one the
\* NAT check names; prepare_system always ends; only a new process enters
\* it again.
PollingEnds ==
    /\ [](attempt < 15)
    /\ [](Truthy(vpn_iface) => pc # "prepare_system")
    /\ [](BootDone => issued[2][8] = vpn_iface)
    /\ [][ (pc # "prepare_system" /\ pc' = "prepare_system") =>
             (pc \in {"exited", "crashed"} /\ lastCall'.op = "construct") ]_vars
    /\ (pc = "prepare_system") ~> (pc \in {"constructed", "crashed"})

\* C18 as stated: at most 15 queries, none after the first that returns an
\* interface, and the bootstrap always ends in Ready or Aborted, both of
\* which leave the manager constructed; it is not entered again in the
\* process.
C18_BoundedPolling ==
    /\ [](attempt < 15)
    /\ [](Truthy(vpn_iface) => pc # "prepare_system")
    /\ [][ (pc # "prepare_system" /\ pc' = "prepare_system") =>
             (pc \in {"exited", "crashed"} /\ lastCall'.op = "construct") ]_vars
    /\ (pc = "prepare_system") ~> (pc = "constructed")

\* The rules the specification assigns to the profiles it names.
ConsistentWithSpec ==
    \A i \in 1..Len(devices) :
        devices[i].profile \in {"Normal", "VPN", "Secure"} =>
            /\ kernel.rule[devices[i].ip]
                 = IF devices[i].profile \in {"VPN", "Secure"} THEN 1 ELSE 0
            /\ kernel.drop[devices[i].ip] = IF devices[i].profile = "Secure" THEN 1 ELSE 0

\* The rules the code installs for a recorded profile.
Consistent ==
    \A i \in 1..Len(devices) :
        /\ kernel.rule[devices[i].ip]
             = IF devices[i].profile \in {"VPN", "Sicher"} THEN 1 ELSE 0
        /\ kernel.drop[devices[i].ip] = IF devices[i].profile = "Sicher" THEN 1 ELSE 0

\* An apply with update_json true whose commands are executed.
PersistedApply == ApplyCalled /\ lastCall.update_json /\ ~dry_run

\* C19 as stated: a persisted apply keeps the installed rules of every
\* registered ip equal to those of its recorded profile (Normal: none, VPN:
\* routing rule, Secure: routing rule and DROP rule) and records the
\* profile it was given.
C19_SecureConsistency ==
    [][ (ConsistentWithSpec /\ PersistedApply') =>
            /\ ConsistentWithSpec'
            /\ Get(devices', lastCall'.ip).profile = lastCall'.profile ]_vars

\* C19 amended: the same with the code's profile names (Sicher: routing
\* rule and DROP rule; any other name but VPN: none), for executed commands.
C19_Consistency ==
    [][ (Consistent /\ PersistedApply') =>
            /\ Consistent'
            /\ Get(devices', lastCall'.ip).profile = lastCall'.profile ]_vars

\* Two registered devices, the one just applied on Sicher, the other on VPN.
C19_Witness ==
    /\ PersistedApply /\ Consistent /\ Len(devices) = 2
    /\ lastCall.profile = "Sicher" /\ kernel.drop[lastCall.ip] = 1
    /\ \E i \in 1..2 : devices[i].ip # lastCall.ip /\ devices[i].profile = "VPN"

\* C20: a persisted apply on a registered ip changes only the profile of
\* that ip's entry: its name is kept, no entry is removed or added, the
\* other entries are unchanged.
C20_KnownDeviceFrame ==
    [][ (lastCall'.op = "apply" /\ lastCall'.update_json /\ Has(devices, lastCall'.ip)) =>
            devices' = [i \in 1..Len(devices) |->
                          IF devices[i].ip = lastCall'.ip
                          THEN [ip |-> devices[i].ip, name |-> devices[i].name,
                                profile |-> lastCall'.profile]
                          ELSE devices[i]] ]_vars

\* A different name passed for a device stored under its ip.
C20_Witness ==
    /\ ApplyCalled /\ lastCall.update_json /\ lastCall.name = "laptop"
    /\ Has(devices, lastCall.ip) /\ Get(devices, lastCall.ip).name = lastCall.ip
    /\ Get(devices, lastCall.ip).profile = lastCall.profile /\ Len(devices) = 2

====
